---- MODULE Spec2Model ----
(***************************************************************************)
(* A model of skiplist<T, Skip_Factor> (src/skiplist/skiplist.h) with      *)
(* T = int.  The heap of node objects and the heap of T objects are        *)
(* explicit: a node is a record [value, next, down] stored at an address,  *)
(* a T object is an integer stored at an address, and every pointer of the *)
(* code is an address or the null address.  Every public mutator is one    *)
(* action; the const member functions are operators on the state.          *)
(***************************************************************************)
EXTENDS Integers, Sequences, FiniteSets, TLC

\* const size_t Max_Level = 32;
Max_Level == 32

\* Bounds of the model: the element values are 1..MaxVal; a run of coin
\* flips succeeds 0..MaxRun times before its first failure, or never fails.
MaxVal == 3
MaxRun == 1
\* The two-container specification draws its values from 1..MaxValCopy.
MaxValCopy == 2
\* The allocator's slots per (container, value, level).
Dups == 2
\* The longest source of a range construction that need not be sorted.
MaxLen == 3

Values == 1..MaxVal
\* The number of coin_flip() calls that return true before the first one
\* that returns false.  Max_Level successes are as good as infinitely many:
\* no tower-building loop asks for more.
Runs == (0..MaxRun) \cup {Max_Level}
CopyValues == 1..MaxValCopy
\* The values a caller writes through an iterator.
WriteValues == {0, MaxVal}
CopyRuns == {0, Max_Level}

\* The skiplist objects of the program.
Containers == {1, 2}

VARIABLES
    heap,   \* node address -> [value, next, down], or Free
    store,  \* T address -> [obj], or Free
    sl,     \* container -> [head_, count_lvls, size_]; head_ = NULL: no object
    abs,    \* container -> the set of values an abstract set would hold
    last,   \* the last call: [op, c, v, hit, ret]
    held    \* the iterator the caller keeps: [c, node, stale]; c = 0: none

vars == <<heap, store, sl, abs, last, held>>

----------------------------------------------------------------------------
\* Addresses.  The code never inspects an address, it only compares two of
\* them, so the allocator is modelled as returning a canonical address that
\* is not live: the address space has Dups slots for every (container,
\* value, level), a sentinel taking a slot of value 0, and `new` returns
\* the first free slot.  An address is a positive integer, nullptr is 0, and a
\* heap is an array over the addresses that holds Free where nothing lives.

LevelSlots == Max_Level + 1
NodeAddrs == 1..(LevelSlots * Dups * (MaxVal + 1) * Cardinality(Containers))
CellAddrs == 1..(Dups * (MaxVal + 1) * Cardinality(Containers))

NULL == 0       \* nullptr of type node*
NULLV == 0      \* nullptr of type T*
Free == [free |-> TRUE]
\* What an address holds once `delete` has been applied to it while nothing
\* lived there: the mark of a second release, which stays.
DoubleFree == [free |-> FALSE]

NodeSlot(c, v, j, l) == 1 + l + LevelSlots * (j + Dups * (v + (MaxVal + 1) * (c - 1)))
CellSlot(c, v, j) == 1 + j + Dups * (v + (MaxVal + 1) * (c - 1))

RECURSIVE FreeNodeSlot(_, _, _, _, _)
FreeNodeSlot(hp, c, v, l, j) ==
    IF j >= Dups \/ v \notin 0..MaxVal THEN NULL
    ELSE IF hp[NodeSlot(c, v, j, l)] # Free THEN FreeNodeSlot(hp, c, v, l, j + 1)
    ELSE NodeSlot(c, v, j, l)

RECURSIVE FreeCellSlot(_, _, _, _)
FreeCellSlot(st, c, v, j) ==
    IF j >= Dups \/ v \notin 0..MaxVal THEN NULLV
    ELSE IF st[CellSlot(c, v, j)] # Free THEN FreeCellSlot(st, c, v, j + 1)
    ELSE CellSlot(c, v, j)

\* The least of a set of addresses, or nullptr when there is none.
Least(S) == IF S = {} THEN 0 ELSE CHOOSE a \in S : \A b \in S : a <= b

\* The slots of container c at level l and its T slots, whatever the value.
LevelNodeSlots(c, l) == {NodeSlot(c, v, j, l) : v \in 0..MaxVal, j \in 0..(Dups - 1)}
ContainerCellSlots(c) == {CellSlot(c, v, j) : v \in 0..MaxVal, j \in 0..(Dups - 1)}

\* The address `new node(...)` returns for a node of container c: the first
\* free slot of the value, or, when the value has none, the least free slot
\* of the level.
NodeAddr(hp, c, v, l) ==
    LET a == FreeNodeSlot(hp, c, v, l, 0)
    IN  IF a # NULL THEN a ELSE Least({b \in LevelNodeSlots(c, l) : hp[b] = Free})
\* The address `new T(x)` returns, likewise.
CellAddr(st, c, v) ==
    LET a == FreeCellSlot(st, c, v, 0)
    IN  IF a # NULLV THEN a ELSE Least({b \in ContainerCellSlots(c) : st[b] = Free})

\* struct node { T* value; node* next; node* down; } and its constructor.
node(ref_value, next_node, down_node) ==
    [value |-> ref_value, next |-> next_node, down |-> down_node]

\* A T object holding x.
T(x) == [obj |-> x]

\* The heap after `new` has stored object x at address a.
New(hp, a, x) == [hp EXCEPT ![a] = x]
\* The heap after `delete a`.
Delete(hp, a) ==
    [hp EXCEPT ![a] = IF @ = Free \/ @ = DoubleFree THEN DoubleFree ELSE Free]

\* *(n->value)
Deref(hp, st, n) == st[hp[n].value].obj
\* The store after `*it = x;` for an iterator at node n: operator* returns
\* the T object as a T&, and the assignment writes it.
DerefAssign(hp, st, n, x) == [st EXCEPT ![hp[n].value] = T(x)]

----------------------------------------------------------------------------
\* Const member functions.

\* Iterator::operator++ applied until the end: the values met from node n on.
RECURSIVE IterSeq(_, _, _)
IterSeq(hp, st, n) ==
    IF n = NULL THEN <<>> ELSE <<Deref(hp, st, n)>> \o IterSeq(hp, st, hp[n].next)

\* The nodes met from node n on, following next.
RECURSIVE NodeSeq(_, _)
NodeSeq(hp, n) ==
    IF n = NULL THEN <<>> ELSE <<n>> \o NodeSeq(hp, hp[n].next)

RECURSIVE Bottom(_, _)
Bottom(hp, n) == IF hp[n].down # NULL THEN Bottom(hp, hp[n].down) ELSE n

\* skiplist::begin
begin(hp, obj) == hp[Bottom(hp, obj.head_)].next

\* skiplist::end
end == NULL

\* skiplist::size, skiplist::empty
size(obj) == obj.size_
empty(obj) == obj.size_ = 0

\* A descent that stays on the layer where it should drop: the fault C24
\* tells from FindDescend.
RECURSIVE FindDescendStays(_, _, _, _)
FindDescendStays(hp, st, curNode, v) ==
    IF hp[curNode].down # NULL
    THEN IF hp[curNode].next = NULL \/ v < Deref(hp, st, hp[curNode].next)
         THEN curNode
         ELSE FindDescendStays(hp, st, hp[curNode].next, v)
    ELSE curNode

\* The descent of find: drop when the next value is greater.
RECURSIVE FindDescend(_, _, _, _)
FindDescend(hp, st, curNode, v) ==
    IF hp[curNode].down # NULL
    THEN IF hp[curNode].next = NULL \/ v < Deref(hp, st, hp[curNode].next)
         THEN FindDescend(hp, st, hp[curNode].down, v)
         ELSE FindDescend(hp, st, hp[curNode].next, v)
    ELSE curNode

\* The base-layer walk of find.
RECURSIVE FindWalk(_, _, _, _)
FindWalk(hp, st, curNode, v) ==
    IF hp[curNode].next # NULL /\ ~(v < Deref(hp, st, hp[curNode].next))
    THEN FindWalk(hp, st, hp[curNode].next, v)
    ELSE curNode

\* A find that answers the node its walk stopped at whatever value it holds:
\* the fault C10 tells from FindHit.
FindHitAny(hp, st, curNode, v) ==
    IF hp[curNode].value = NULLV THEN end ELSE curNode

\* What find answers at the node its walk stopped at.
FindHit(hp, st, curNode, v) ==
    IF hp[curNode].value = NULLV \/ Deref(hp, st, curNode) # v THEN end ELSE curNode

\* skiplist::find
find(hp, st, obj, v) ==
    FindHit(hp, st, FindWalk(hp, st, FindDescend(hp, st, obj.head_, v), v), v)

\* A descent that moves onto an equal value, as the descent of find does:
\* the fault C13 tells from LowerDescend.
RECURSIVE LowerDescendGreater(_, _, _, _)
LowerDescendGreater(hp, st, curNode, v) ==
    IF hp[curNode].down # NULL
    THEN IF hp[curNode].next = NULL \/ v < Deref(hp, st, hp[curNode].next)
         THEN LowerDescendGreater(hp, st, hp[curNode].down, v)
         ELSE LowerDescendGreater(hp, st, hp[curNode].next, v)
    ELSE curNode

\* The descent of lower_bound: drop when the next value is not less.
RECURSIVE LowerDescend(_, _, _, _)
LowerDescend(hp, st, curNode, v) ==
    IF hp[curNode].down # NULL
    THEN IF hp[curNode].next = NULL \/ ~(Deref(hp, st, hp[curNode].next) < v)
         THEN LowerDescend(hp, st, hp[curNode].down, v)
         ELSE LowerDescend(hp, st, hp[curNode].next, v)
    ELSE curNode

\* A base-layer walk that passes an equal value: the fault C11 tells from
\* LowerWalk.
RECURSIVE LowerWalkNotGreater(_, _, _, _)
LowerWalkNotGreater(hp, st, curNode, v) ==
    IF hp[curNode].next # NULL /\ ~(v < Deref(hp, st, hp[curNode].next))
    THEN LowerWalkNotGreater(hp, st, hp[curNode].next, v)
    ELSE curNode

\* The base-layer walk of lower_bound.
RECURSIVE LowerWalk(_, _, _, _)
LowerWalk(hp, st, curNode, v) ==
    IF hp[curNode].next # NULL /\ Deref(hp, st, hp[curNode].next) < v
    THEN LowerWalk(hp, st, hp[curNode].next, v)
    ELSE curNode

\* skiplist::lower_bound
lower_bound(hp, st, obj, v) ==
    hp[LowerWalk(hp, st, LowerDescend(hp, st, obj.head_, v), v)].next

\* The descent of upper_bound: drop when the next value is greater.
RECURSIVE UpperDescend(_, _, _, _)
UpperDescend(hp, st, curNode, v) ==
    IF hp[curNode].down # NULL
    THEN IF hp[curNode].next = NULL \/ v < Deref(hp, st, hp[curNode].next)
         THEN UpperDescend(hp, st, hp[curNode].down, v)
         ELSE UpperDescend(hp, st, hp[curNode].next, v)
    ELSE curNode

\* A base-layer walk that stops in front of an equal value: the fault C12
\* tells from UpperWalk.
RECURSIVE UpperWalkLess(_, _, _, _)
UpperWalkLess(hp, st, curNode, v) ==
    IF hp[curNode].next # NULL /\ Deref(hp, st, hp[curNode].next) < v
    THEN UpperWalkLess(hp, st, hp[curNode].next, v)
    ELSE curNode

\* The base-layer walk of upper_bound.
RECURSIVE UpperWalk(_, _, _, _)
UpperWalk(hp, st, curNode, v) ==
    IF hp[curNode].next # NULL /\ ~(v < Deref(hp, st, hp[curNode].next))
    THEN UpperWalk(hp, st, hp[curNode].next, v)
    ELSE curNode

\* skiplist::upper_bound
upper_bound(hp, st, obj, v) ==
    hp[UpperWalk(hp, st, UpperDescend(hp, st, obj.head_, v), v)].next

\* skiplist::count
count(hp, st, obj, v) == IF find(hp, st, obj, v) = end THEN 0 ELSE 1

----------------------------------------------------------------------------
\* std::vector<node*>, indexed from 0.
Vec(n, x) == [i \in 0..(n - 1) |-> x]
VecSize(vec) == Cardinality(DOMAIN vec)
push_back(vec, x) ==
    [i \in 0..VecSize(vec) |-> IF i \in DOMAIN vec THEN vec[i] ELSE x]

\* coin_flip() on a run that still has `flips` successes to give.
coin_flip(flips) == flips > 0

----------------------------------------------------------------------------
\* skiplist::insert

\* A descent that drops at once on every upper layer, so that every
\* refs[cur_lvl] is a sentinel: the fault C2 tells from InsertDescend.
RECURSIVE InsertDescendNoRight(_, _, _, _, _, _)
InsertDescendNoRight(hp, st, v, curNode, cur_lvl, refs) ==
    IF cur_lvl > 0
    THEN InsertDescendNoRight(hp, st, v, hp[curNode].down, cur_lvl - 1,
                              [refs EXCEPT ![cur_lvl] = curNode])
    ELSE [curNode |-> curNode, refs |-> refs]

\* The descent of insert, which records refs[cur_lvl] at every drop.
RECURSIVE InsertDescend(_, _, _, _, _, _)
InsertDescend(hp, st, v, curNode, cur_lvl, refs) ==
    IF cur_lvl > 0
    THEN IF hp[curNode].next = NULL \/ v < Deref(hp, st, hp[curNode].next)
         THEN InsertDescend(hp, st, v, hp[curNode].down, cur_lvl - 1,
                            [refs EXCEPT ![cur_lvl] = curNode])
         ELSE InsertDescend(hp, st, v, hp[curNode].next, cur_lvl, refs)
    ELSE [curNode |-> curNode, refs |-> refs]

\* A base-layer walk that stops in front of an equal value, as the walk of
\* erase does: the fault C6 tells from InsertWalk.
RECURSIVE InsertWalkLess(_, _, _, _)
InsertWalkLess(hp, st, curNode, v) ==
    IF hp[curNode].next # NULL /\ Deref(hp, st, hp[curNode].next) < v
    THEN InsertWalkLess(hp, st, hp[curNode].next, v)
    ELSE curNode

\* The base-layer walk of insert.
RECURSIVE InsertWalk(_, _, _, _)
InsertWalk(hp, st, curNode, v) ==
    IF hp[curNode].next # NULL /\ ~(v < Deref(hp, st, hp[curNode].next))
    THEN InsertWalk(hp, st, hp[curNode].next, v)
    ELSE curNode

\* A duplicate test that looks at the node behind curNode: the fault C1
\* tells from InsertFound.
InsertFoundNext(hp, st, curNode, v) ==
    hp[curNode].next # NULL /\ Deref(hp, st, hp[curNode].next) = v

\* if (curNode->value != nullptr && *(curNode->value) == insertingValue)
InsertFound(hp, st, curNode, v) ==
    hp[curNode].value # NULLV /\ Deref(hp, st, curNode) = v

\* A tower loop without the ceiling test: the fault C5 tells from
\* InsertGrows.
InsertGrowsUnbounded(flips, cur_lvl) == coin_flip(flips)

\* while (coin_flip() && ++cur_lvl < Max_Level), cur_lvl before the increment.
InsertGrows(flips, cur_lvl) == coin_flip(flips) /\ cur_lvl + 1 < Max_Level

\* A new base node that is not linked to the rest of the layer: the fault
\* C7 tells from InsertBase.
InsertBaseUnlinked(hp, curNode, data) == node(data, NULL, NULL)

\* The base node insert creates behind curNode: new node(data, curNode->next, nullptr).
InsertBase(hp, curNode, data) == node(data, hp[curNode].next, NULL)

\* A new sentinel that is not linked to the chain below it: the fault C4
\* tells from InsertHead.
InsertHeadDetached(nextLevelNode, head_) == node(NULLV, nextLevelNode, NULL)

\* The sentinel insert creates for a new top layer:
\* new node(nullptr, nextLevelNode, head_).
InsertHead(nextLevelNode, head_) == node(NULLV, nextLevelNode, head_)

\* A tower node that does not refer to the node below it: the fault C23
\* tells from InsertUpper.
InsertUpperNoDown(data, lastInsertingNode) == node(data, NULL, NULL)

\* The tower node insert creates above lastInsertingNode:
\* new node(data); nextLevelNode->down = lastInsertingNode;
InsertUpper(data, lastInsertingNode) == node(data, NULL, lastInsertingNode)

\* The heap after the new tower node is spliced in behind refs[cur_lvl].
InsertSplice(hp, ref, nextLevelNode) ==
    [hp EXCEPT ![nextLevelNode].next = hp[ref].next, ![ref].next = nextLevelNode]

\* The tower-building loop of insert.  s holds the locals and the members
\* the loop changes.
RECURSIVE InsertTower(_, _, _)
InsertTower(s, c, v) ==
    IF InsertGrows(s.flips, s.cur_lvl)
    THEN LET cur_lvl == s.cur_lvl + 1
             nextLevelNode == NodeAddr(s.hp, c, v, cur_lvl)
             hp1 == New(s.hp, nextLevelNode,
                        InsertUpper(s.data, s.lastInsertingNode))
         IN  IF cur_lvl < s.count_lvls
             THEN InsertTower(
                    [s EXCEPT !.hp = InsertSplice(hp1, s.refs[cur_lvl], nextLevelNode),
                              !.cur_lvl = cur_lvl,
                              !.lastInsertingNode = nextLevelNode,
                              !.flips = s.flips - 1], c, v)
             ELSE LET newHead == NodeAddr(hp1, c, 0, cur_lvl)
                  IN  InsertTower(
                        [s EXCEPT !.hp = New(hp1, newHead,
                                             InsertHead(nextLevelNode, s.head_)),
                                  !.head_ = newHead,
                                  !.refs = push_back(s.refs, newHead),
                                  !.count_lvls = s.count_lvls + 1,
                                  !.cur_lvl = cur_lvl,
                                  !.lastInsertingNode = nextLevelNode,
                                  !.flips = s.flips - 1], c, v)
    ELSE s

\* The size after insert has linked a new base node.
InsertSize(size_) == size_ + 1

\* insert(v) on the object obj of container c, its coin run giving k
\* successes: the heaps, the object and the returned iterator.
InsertCall(hp, st, obj, c, v, k) ==
    LET d == InsertDescend(hp, st, v, obj.head_, obj.count_lvls - 1,
                           Vec(obj.count_lvls, NULL))
        curNode == InsertWalk(hp, st, d.curNode, v)
        refs == [d.refs EXCEPT ![0] = curNode]
    IN  IF InsertFound(hp, st, curNode, v)
        THEN [hp |-> hp, st |-> st, obj |-> obj, ret |-> curNode]
        ELSE LET data == CellAddr(st, c, v)
                 insertingNode == NodeAddr(hp, c, v, 0)
                 hp1 == New(hp, insertingNode, InsertBase(hp, curNode, data))
                 hp2 == [hp1 EXCEPT ![curNode].next = insertingNode]
                 t == InsertTower([hp |-> hp2, head_ |-> obj.head_,
                                   count_lvls |-> obj.count_lvls, refs |-> refs,
                                   cur_lvl |-> 0, lastInsertingNode |-> insertingNode,
                                   flips |-> k, data |-> data], c, v)
             IN  [hp |-> t.hp, st |-> New(st, data, T(v)),
                  obj |-> [head_ |-> t.head_, count_lvls |-> t.count_lvls,
                           size_ |-> InsertSize(obj.size_)],
                  ret |-> insertingNode]

----------------------------------------------------------------------------
\* skiplist::erase(const T&)

\* The descent of erase, which records refs[cur_lvl] at every drop.
RECURSIVE EraseDescend(_, _, _, _, _, _)
EraseDescend(hp, st, v, curNode, cur_lvl, refs) ==
    IF hp[curNode].down # NULL
    THEN IF hp[curNode].next = NULL \/ ~(Deref(hp, st, hp[curNode].next) < v)
         THEN EraseDescend(hp, st, v, hp[curNode].down, cur_lvl - 1,
                           [refs EXCEPT ![cur_lvl] = curNode])
         ELSE EraseDescend(hp, st, v, hp[curNode].next, cur_lvl, refs)
    ELSE [curNode |-> curNode, refs |-> refs, cur_lvl |-> cur_lvl]

\* A base-layer walk that passes an equal value, so that the value is never
\* the one behind curNode: the fault C14 tells from EraseWalk.
RECURSIVE EraseWalkNotGreater(_, _, _, _)
EraseWalkNotGreater(hp, st, curNode, v) ==
    IF hp[curNode].next # NULL /\ ~(v < Deref(hp, st, hp[curNode].next))
    THEN EraseWalkNotGreater(hp, st, hp[curNode].next, v)
    ELSE curNode

\* The base-layer walk of erase.
RECURSIVE EraseWalk(_, _, _, _)
EraseWalk(hp, st, curNode, v) ==
    IF hp[curNode].next # NULL /\ Deref(hp, st, hp[curNode].next) < v
    THEN EraseWalk(hp, st, hp[curNode].next, v)
    ELSE curNode

\* A miss test that compares no value: the fault C9 tells from EraseMissing.
EraseMissingNull(hp, st, curNode, v) == hp[curNode].next = NULL

\* if (curNode->next == nullptr || *(curNode->next->value) != value)
EraseMissing(hp, st, curNode, v) ==
    hp[curNode].next = NULL \/ Deref(hp, st, hp[curNode].next) # v

\* An unlink loop that stops behind the base layer: the fault C20 tells from
\* EraseTowerEnds.
EraseTowerEndsAtBase(hp, ref, ref_on_value) ==
    \/ hp[ref].next = NULL
    \/ hp[hp[ref].next].value # ref_on_value
    \/ hp[ref].down # NULL

\* if (ref->next == nullptr || ref->next->value != ref_on_value) break;
EraseTowerEnds(hp, ref, ref_on_value) ==
    hp[ref].next = NULL \/ hp[hp[ref].next].value # ref_on_value

\* for (node* ref : refs): unlink and delete the tower node behind ref.
RECURSIVE EraseUnlink(_, _, _, _)
EraseUnlink(hp, refs, i, ref_on_value) ==
    IF i >= VecSize(refs) \/ EraseTowerEnds(hp, refs[i], ref_on_value)
    THEN hp
    ELSE LET onDelete == hp[refs[i]].next
             hp1 == [hp EXCEPT ![refs[i]].next = hp[onDelete].next]
         IN  EraseUnlink(Delete(hp1, onDelete), refs, i + 1, ref_on_value)

\* An erase that never discards a sentinel: the fault C22 tells from
\* EraseTrims.
EraseTrimsNever(hp, head_, count_lvls) == FALSE

\* while (head_->next == nullptr && count_lvls > 1)
EraseTrims(hp, head_, count_lvls) == hp[head_].next = NULL /\ count_lvls > 1

\* A shrink that discards one sentinel at most: the fault C25 tells from
\* EraseShrink.
EraseShrinkOnce(hp, head_, count_lvls) ==
    IF EraseTrims(hp, head_, count_lvls)
    THEN [hp |-> Delete(hp, head_), head_ |-> hp[head_].down,
          count_lvls |-> count_lvls - 1]
    ELSE [hp |-> hp, head_ |-> head_, count_lvls |-> count_lvls]

\* The head chain shrink that ends erase.
RECURSIVE EraseShrink(_, _, _)
EraseShrink(hp, head_, count_lvls) ==
    IF EraseTrims(hp, head_, count_lvls)
    THEN EraseShrink(Delete(hp, head_), hp[head_].down, count_lvls - 1)
    ELSE [hp |-> hp, head_ |-> head_, count_lvls |-> count_lvls]

\* An erase that returns the node in front of the erased one: the fault C8
\* tells from EraseReturn.
EraseReturnRef(hp, refs) == refs[0]

\* return Iterator((*refs.begin())->next);
EraseReturn(hp, refs) == hp[refs[0]].next

\* An erase that leaves size_ alone: the fault C3 tells from EraseSize.
EraseSizeKept(size_) == size_

\* The size after erase has unlinked an element.
EraseSize(size_) == size_ - 1

\* erase(v) on the object obj: the heaps, the object, the returned iterator.
EraseCall(hp, st, obj, v) ==
    LET d == EraseDescend(hp, st, v, obj.head_, obj.count_lvls - 1,
                          Vec(obj.count_lvls, NULL))
        curNode == EraseWalk(hp, st, d.curNode, v)
    IN  IF EraseMissing(hp, st, curNode, v)
        THEN [hp |-> hp, st |-> st, obj |-> obj, ret |-> hp[curNode].next]
        ELSE LET refs == [d.refs EXCEPT ![d.cur_lvl] = curNode]
                 ref_on_value == hp[hp[curNode].next].value
                 hp1 == EraseUnlink(hp, refs, 0, ref_on_value)
                 t == EraseShrink(hp1, obj.head_, obj.count_lvls)
             IN  [hp |-> t.hp, st |-> Delete(st, ref_on_value),
                  obj |-> [head_ |-> t.head_, count_lvls |-> t.count_lvls,
                           size_ |-> EraseSize(obj.size_)],
                  ret |-> EraseReturn(t.hp, refs)]

\* An erase through an iterator that erases the first element whatever the
\* iterator references: the fault C18 tells from EraseIterCall.
EraseIterFirst(hp, st, obj, it) ==
    EraseCall(hp, st, obj, Deref(hp, st, begin(hp, obj)))

\* skiplist::erase(Iterator): return erase(*it);
EraseIterCall(hp, st, obj, it) == EraseCall(hp, st, obj, Deref(hp, st, it))

\* for (...) { sk.erase(i); }: erase the values of `order` one after the
\* other.
RECURSIVE EraseAll(_, _, _, _)
EraseAll(hp, st, obj, order) ==
    IF order = <<>>
    THEN [hp |-> hp, st |-> st, obj |-> obj]
    ELSE LET r == EraseCall(hp, st, obj, Head(order))
         IN  EraseAll(r.hp, r.st, r.obj, Tail(order))

----------------------------------------------------------------------------
\* skiplist::clear

\* The inner loop of clear on an upper layer: delete every node from onDelete.
RECURSIVE ClearChain(_, _)
ClearChain(hp, onDelete) ==
    IF onDelete # NULL
    THEN ClearChain(Delete(hp, onDelete), hp[onDelete].next)
    ELSE hp

\* while (curNode->down != nullptr): empty every layer above the base.
RECURSIVE ClearUpper(_, _)
ClearUpper(hp, curNode) ==
    IF hp[curNode].down # NULL
    THEN ClearUpper([ClearChain(hp, hp[curNode].next) EXCEPT ![curNode].next = NULL],
                    hp[curNode].down)
    ELSE [hp |-> hp, curNode |-> curNode]

\* The last loop of clear: delete every base node and its value.
RECURSIVE ClearBase(_, _, _)
ClearBase(hp, st, onDelete) ==
    IF onDelete # NULL
    THEN ClearBase(Delete(hp, onDelete), Delete(st, hp[onDelete].value),
                   hp[onDelete].next)
    ELSE [hp |-> hp, st |-> st]

\* A clear that leaves size_ alone: the fault C17 tells from ClearSize.
ClearSizeKept(size_) == size_

\* size_ = 0; at the end of clear.
ClearSize(size_) == 0

\* A clear that ends with the head chain shrink of erase: the fault C26
\* tells from ClearCall.
ClearCallTrims(hp, st, obj) ==
    LET u == ClearUpper(hp, obj.head_)
        b == ClearBase([u.hp EXCEPT ![u.curNode].next = NULL], st,
                       u.hp[u.curNode].next)
        t == EraseShrink(b.hp, obj.head_, obj.count_lvls)
    IN  [hp |-> t.hp, st |-> b.st,
         obj |-> [head_ |-> t.head_, count_lvls |-> t.count_lvls, size_ |-> 0]]

\* clear() on the object obj.
ClearCall(hp, st, obj) ==
    LET u == ClearUpper(hp, obj.head_)
        b == ClearBase([u.hp EXCEPT ![u.curNode].next = NULL], st,
                       u.hp[u.curNode].next)
    IN  [hp |-> b.hp, st |-> b.st, obj |-> [obj EXCEPT !.size_ = ClearSize(obj.size_)]]

\* The loop that deletes the head chain, in ~skiplist and operator=.
RECURSIVE DeleteHeads(_, _)
DeleteHeads(hp, curNode) ==
    IF curNode # NULL
    THEN DeleteHeads(Delete(hp, curNode), hp[curNode].down)
    ELSE hp

----------------------------------------------------------------------------
\* Range construction, copy construction and assignment.  The three bodies
\* hold the same loop over a source sequence; the model writes it once.

\* while (++cur_lvl < Max_Level && coin_flip()), cur_lvl before the increment.
BuildGrows(flips, cur_lvl) == cur_lvl + 1 < Max_Level /\ coin_flip(flips)

\* A copied tower node that does not refer to the node below it: the fault
\* C15 tells from BuildUpper.
BuildUpperNoDown(value, insertingNode) == node(value, NULL, NULL)

\* node* newNode = new node(value, nullptr, insertingNode);
BuildUpper(value, insertingNode) == node(value, NULL, insertingNode)

\* The inner loop: the tower of one appended element.
RECURSIVE BuildTower(_, _, _)
BuildTower(s, c, v) ==
    IF BuildGrows(s.flips, s.cur_lvl)
    THEN LET cur_lvl == s.cur_lvl + 1
             newNode == NodeAddr(s.hp, c, v, cur_lvl)
             hp1 == New(s.hp, newNode, BuildUpper(s.value, s.insertingNode))
             grow == cur_lvl >= s.count_lvls
             newHead == NodeAddr(hp1, c, 0, cur_lvl)
             hp2 == IF grow THEN New(hp1, newHead, node(NULLV, newNode, s.head_))
                    ELSE hp1
             refs == IF grow THEN push_back(s.refs, newHead) ELSE s.refs
         IN  BuildTower(
               [s EXCEPT !.hp = [hp2 EXCEPT ![refs[cur_lvl]].next = newNode],
                         !.head_ = IF grow THEN newHead ELSE s.head_,
                         !.count_lvls = IF grow THEN s.count_lvls + 1 ELSE s.count_lvls,
                         !.refs = [refs EXCEPT ![cur_lvl] = newNode],
                         !.cur_lvl = cur_lvl,
                         !.insertingNode = newNode,
                         !.flips = s.flips - 1], c, v)
    ELSE s

\* A value cell taken from any live cell that holds x, whoever owns it, and
\* a new one only when there is none: the fault C16 tells from BuildValue.
BuildValueShared(st, c, x) ==
    IF \E a \in CellAddrs : st[a] = T(x)
    THEN CHOOSE a \in CellAddrs : st[a] = T(x)
    ELSE CellAddr(st, c, x)

\* T* value = new T(*it): where the new container keeps its copy of x.
BuildValue(st, c, x) == CellAddr(st, c, x)

\* A loop that never moves refs[0]: a fault C15 tells from BuildRefs.
BuildRefsKept(refs, insertingNode) == refs

\* refs[0] = insertingNode;
BuildRefs(refs, insertingNode) == [refs EXCEPT ![0] = insertingNode]

\* A loop that does not count what it appends: the fault C21 tells from
\* BuildSize.
BuildSizeKept(size_) == size_

\* ++size_; at the end of the loop body.
BuildSize(size_) == size_ + 1

\* The outer loop: append src[i..] behind refs[0], the i-th element's coin
\* run giving runs[i] successes.  b = [hp, st, obj, refs].
RECURSIVE BuildLoop(_, _, _, _, _)
BuildLoop(b, c, src, runs, i) ==
    IF i > Len(src)
    THEN b
    ELSE LET value == BuildValue(b.st, c, src[i])
             insertingNode == NodeAddr(b.hp, c, src[i], 0)
             hp1 == New(b.hp, insertingNode, node(value, NULL, NULL))
             hp2 == [hp1 EXCEPT ![b.refs[0]].next = insertingNode]
             t == BuildTower([hp |-> hp2, head_ |-> b.obj.head_,
                              count_lvls |-> b.obj.count_lvls,
                              refs |-> BuildRefs(b.refs, insertingNode),
                              cur_lvl |-> 0, insertingNode |-> insertingNode,
                              flips |-> runs[i], value |-> value], c, src[i])
         IN  BuildLoop([hp |-> t.hp, st |-> New(b.st, value, T(src[i])),
                        obj |-> [head_ |-> t.head_, count_lvls |-> t.count_lvls,
                                 size_ |-> BuildSize(b.obj.size_)],
                        refs |-> t.refs], c, src, runs, i + 1)

\* The members of an object before its constructor body runs, which is also
\* how the model writes "no object": count_lvls{1}, head_{nullptr}, size_{0}.
NoObject == [head_ |-> NULL, count_lvls |-> 1, size_ |-> 0]

\* size_ = 0; count_lvls = 1; in operator=, after the old nodes are deleted.
AssignReset(obj) == [obj EXCEPT !.size_ = 0, !.count_lvls = 1]

\* head_ = new node(); refs = { head_ }; then the loop over the source, on
\* an object whose members are obj.
BuildCall(hp, st, obj, c, src, runs) ==
    LET head == NodeAddr(hp, c, 0, 0)
    IN  BuildLoop([hp |-> New(hp, head, node(NULLV, NULL, NULL)), st |-> st,
                   obj |-> [obj EXCEPT !.head_ = head],
                   refs |-> Vec(1, head)], c, src, runs, 1)

\* ~skiplist: clear(), then delete the heads.
DestroyCall(hp, st, obj) ==
    LET r == ClearCall(hp, st, obj)
    IN  [hp |-> DeleteHeads(r.hp, obj.head_), st |-> r.st]

----------------------------------------------------------------------------
\* The state machine.

Alive(c) == sl[c].head_ # NULL

\* The caller keeps no iterator.
NoIter == [c |-> 0, node |-> NULL, stale |-> FALSE]

\* The iterator the caller keeps, once a call has left the heap hp: stale
\* from the delete of its node on, whatever the allocator does with the
\* address afterwards.
Kept(hp) ==
    IF held.node # NULL /\ hp[held.node] \in {Free, DoubleFree}
    THEN [held EXCEPT !.stale = TRUE]
    ELSE held

NoCall == [op |-> "none", c |-> 0, v |-> 0, hit |-> FALSE, ret |-> NULL]
Call(op, c, v, hit, ret) == [op |-> op, c |-> c, v |-> v, hit |-> hit, ret |-> ret]

\* The strictly increasing sequence of the elements of a set of integers.
RECURSIVE SortedSeq(_)
SortedSeq(S) ==
    IF S = {} THEN <<>>
    ELSE LET m == CHOOSE x \in S : \A y \in S : x <= y
         IN  <<m>> \o SortedSeq(S \ {m})

Range(f) == {f[i] : i \in DOMAIN f}

\* No object exists yet and both heaps are empty.
Init ==
    /\ heap = [a \in NodeAddrs |-> Free]
    /\ store = [a \in CellAddrs |-> Free]
    /\ sl = [c \in Containers |-> NoObject]
    /\ abs = [c \in Containers |-> {}]
    /\ last = NoCall
    /\ held = NoIter

\* What an action leaves in `last`: the call, when the specification
\* observes it (obs), and no call otherwise.
Observe(obs, call) == IF obs THEN call ELSE NoCall

\* skiplist<int> c;
ctor(c, obs) ==
    /\ ~Alive(c)
    /\ heap' = New(heap, NodeAddr(heap, c, 0, 0), node(NULLV, NULL, NULL))
    /\ sl' = [sl EXCEPT ![c] = [NoObject EXCEPT !.head_ = NodeAddr(heap, c, 0, 0)]]
    /\ abs' = [abs EXCEPT ![c] = {}]
    /\ last' = Observe(obs, Call("ctor", c, 0, FALSE, NULL))
    /\ UNCHANGED <<store, held>>

\* A source sequence written as one number, a digit per element, and back:
\* how a call record names the source of a range construction.
RECURSIVE SourceCode(_)
SourceCode(src) ==
    IF src = <<>> THEN 0
    ELSE Head(src) + (MaxVal + 1) * SourceCode(Tail(src))

RECURSIVE SourceOf(_)
SourceOf(n) ==
    IF n = 0 THEN <<>>
    ELSE <<n % (MaxVal + 1)>> \o SourceOf(n \div (MaxVal + 1))

\* skiplist<int> c(first, last); with [first, last) holding src.
ctor_range(c, src, runs, obs) ==
    /\ ~Alive(c)
    /\ LET r == BuildCall(heap, store, NoObject, c, src, runs)
       IN  /\ heap' = r.hp
           /\ store' = r.st
           /\ sl' = [sl EXCEPT ![c] = r.obj]
    /\ abs' = [abs EXCEPT ![c] = Range(src)]
    /\ last' = Observe(obs, Call("ctor_range", c, SourceCode(src), FALSE, NULL))
    /\ UNCHANGED held

\* skiplist<int> c(other);
ctor_copy(c, other, runs, obs) ==
    /\ ~Alive(c)
    /\ Alive(other)
    /\ LET src == IterSeq(heap, store, begin(heap, sl[other]))
           r == BuildCall(heap, store, NoObject, c, src, runs)
       IN  /\ heap' = r.hp
           /\ store' = r.st
           /\ sl' = [sl EXCEPT ![c] = r.obj]
    /\ abs' = [abs EXCEPT ![c] = abs[other]]
    /\ last' = Observe(obs, Call("ctor_copy", c, other, FALSE, NULL))
    /\ UNCHANGED held

\* c = other;
assign(c, other, runs, obs) ==
    /\ Alive(c)
    /\ Alive(other)
    /\ IF c # other
       THEN LET d == ClearCall(heap, store, sl[c])
                hp1 == DeleteHeads(d.hp, sl[c].head_)
                src == IterSeq(hp1, d.st, begin(hp1, sl[other]))
                r == BuildCall(hp1, d.st, AssignReset(d.obj), c, src, runs)
            IN  /\ heap' = r.hp
                /\ store' = r.st
                /\ sl' = [sl EXCEPT ![c] = r.obj]
                /\ held' = Kept(hp1)
       ELSE UNCHANGED <<heap, store, sl, held>>
    /\ abs' = [abs EXCEPT ![c] = abs[other]]
    /\ last' = Observe(obs, Call("assign", c, other, FALSE, NULL))

\* c.insert(v);
insert(c, v, k, obs) ==
    /\ Alive(c)
    /\ LET r == InsertCall(heap, store, sl[c], c, v, k)
       IN  /\ heap' = r.hp
           /\ store' = r.st
           /\ sl' = [sl EXCEPT ![c] = r.obj]
           /\ last' = Observe(obs, Call("insert", c, v, v \in abs[c], r.ret))
    /\ abs' = [abs EXCEPT ![c] = @ \cup {v}]
    /\ UNCHANGED held

\* c.erase(v);
erase(c, v, obs) ==
    /\ Alive(c)
    /\ LET r == EraseCall(heap, store, sl[c], v)
       IN  /\ heap' = r.hp
           /\ store' = r.st
           /\ sl' = [sl EXCEPT ![c] = r.obj]
           /\ last' = Observe(obs, Call("erase", c, v, v \in abs[c], r.ret))
           /\ held' = Kept(r.hp)
    /\ abs' = [abs EXCEPT ![c] = @ \ {v}]

\* c.clear();
clear(c, obs) ==
    /\ Alive(c)
    /\ LET r == ClearCall(heap, store, sl[c])
       IN  /\ heap' = r.hp
           /\ store' = r.st
           /\ sl' = [sl EXCEPT ![c] = r.obj]
           /\ held' = Kept(r.hp)
    /\ abs' = [abs EXCEPT ![c] = {}]
    /\ last' = Observe(obs, Call("clear", c, 0, FALSE, NULL))

\* The object c goes out of scope.
dtor(c, obs) ==
    /\ Alive(c)
    /\ LET r == DestroyCall(heap, store, sl[c])
       IN  /\ heap' = r.hp
           /\ store' = r.st
           /\ held' = Kept(r.hp)
    /\ sl' = [sl EXCEPT ![c] = NoObject]
    /\ abs' = [abs EXCEPT ![c] = {}]
    /\ last' = Observe(obs, Call("dtor", c, 0, FALSE, NULL))

\* c.erase(it); with it the iterator reached from c.begin() by i - 1
\* advances, which references the i-th element.
erase_iter(c, i, obs) ==
    /\ Alive(c)
    /\ i \in 1..Len(NodeSeq(heap, begin(heap, sl[c])))
    /\ LET it == NodeSeq(heap, begin(heap, sl[c]))[i]
           v == IterSeq(heap, store, begin(heap, sl[c]))[i]
           r == EraseIterCall(heap, store, sl[c], it)
       IN  /\ heap' = r.hp
           /\ store' = r.st
           /\ sl' = [sl EXCEPT ![c] = r.obj]
           /\ last' = Observe(obs, Call("erase_iter", c, v, TRUE, r.ret))
           /\ abs' = [abs EXCEPT ![c] = @ \ {v}]
           /\ held' = Kept(r.hp)

\* *it = x; with it the iterator reached from c.begin() by i - 1 advances.
write(c, i, x, obs) ==
    /\ Alive(c)
    /\ i \in 1..Len(NodeSeq(heap, begin(heap, sl[c])))
    /\ LET n == NodeSeq(heap, begin(heap, sl[c]))[i]
           st1 == DerefAssign(heap, store, n, x)
       IN  /\ store' = st1
           /\ abs' = [abs EXCEPT ![c] = Range(IterSeq(heap, st1, begin(heap, sl[c])))]
           /\ last' = Observe(obs, Call("write", c, x, TRUE, n))
    /\ UNCHANGED <<heap, sl, held>>

\* auto it = c.begin(); advanced i - 1 times: the caller keeps an iterator
\* to the i-th element of c.
take(c, i, obs) ==
    /\ Alive(c)
    /\ i \in 1..Len(NodeSeq(heap, begin(heap, sl[c])))
    /\ LET n == NodeSeq(heap, begin(heap, sl[c]))[i]
       IN  /\ held' = [c |-> c, node |-> n, stale |-> FALSE]
           /\ last' = Observe(obs, Call("take", c, Deref(heap, store, n), TRUE, n))
    /\ UNCHANGED <<heap, store, sl, abs>>

\* What *it may yield when it references a released node: the read goes
\* through released storage, so any value.
StaleReads == 0..(MaxVal + 1)

\* The iterator the caller keeps was taken from c and its node has been
\* deleted since: by an erase, by clear, by an assignment to c or by the
\* destructor.
StaleIterator(c) ==
    /\ held.c = c
    /\ held.stale

\* c.erase(it); with it the stale iterator the caller keeps, in a build where
\* the read of the released node yields w: erase(w) runs.  The iterator
\* stays with the caller, as stale as it was.
erase_stale(c, w, obs) ==
    /\ Alive(c)
    /\ StaleIterator(c)
    /\ LET r == EraseCall(heap, store, sl[c], w)
       IN  /\ heap' = r.hp
           /\ store' = r.st
           /\ sl' = [sl EXCEPT ![c] = r.obj]
           /\ last' = Observe(obs, Call("erase_stale", c, w, w \in abs[c], r.ret))
    /\ abs' = [abs EXCEPT ![c] = @ \ {w}]
    /\ UNCHANGED held

\* The same call in a build where the read of the released node faults: the
\* program ends there.
erase_stale_fault(c, obs) ==
    /\ Alive(c)
    /\ StaleIterator(c)
    /\ last' = Observe(obs, Call("fault", c, 0, FALSE, NULL))
    /\ UNCHANGED <<heap, store, sl, abs, held>>

\* The strictly increasing sources of a range construction over a value set.
SortedSources(V) == {SortedSeq(S) : S \in SUBSET V}
\* One coin run per element of a source of length n.
RunsFor(n, R) == [1..n -> R]

\* One container, every call observed: the operations that need no second
\* object.
Next ==
    \/ ctor(1, TRUE)
    \/ \E src \in SortedSources(Values) : \E runs \in RunsFor(Len(src), Runs) :
          ctor_range(1, src, runs, TRUE)
    \/ \E v \in Values, k \in Runs : insert(1, v, k, TRUE)
    \/ \E v \in Values : erase(1, v, TRUE)
    \/ clear(1, TRUE)
    \/ dtor(1, TRUE)

Spec == Init /\ [][Next]_vars

\* Two containers, no call observed: every operation on either, and the
\* copies between them.  A coin run here fails at once or never.
NextCopy ==
    \/ \E c \in Containers : ctor(c, FALSE)
    \/ \E c \in Containers, src \in SortedSources(CopyValues) :
          \E runs \in RunsFor(Len(src), CopyRuns) : ctor_range(c, src, runs, FALSE)
    \/ \E c \in Containers, other \in Containers :
          \E runs \in RunsFor(sl[other].size_, CopyRuns) :
             ctor_copy(c, other, runs, FALSE)
    \/ \E c \in Containers, other \in Containers :
          \E runs \in RunsFor(sl[other].size_, CopyRuns) :
             assign(c, other, runs, FALSE)
    \/ \E c \in Containers, v \in CopyValues, k \in CopyRuns : insert(c, v, k, FALSE)
    \/ \E c \in Containers, v \in CopyValues : erase(c, v, FALSE)
    \/ \E c \in Containers : clear(c, FALSE)
    \/ \E c \in Containers : dtor(c, FALSE)

SpecCopy == Init /\ [][NextCopy]_vars

\* Two containers: every call of NextCopy, and each construction from a
\* source a second time, observed.  An observed construction ends the
\* behaviour; what can follow it follows the same construction unobserved.
NextBuild ==
    /\ last = NoCall
    /\ \/ NextCopy
       \/ \E c \in Containers, src \in SortedSources(CopyValues) :
             \E runs \in RunsFor(Len(src), CopyRuns) : ctor_range(c, src, runs, TRUE)
       \/ \E c \in Containers, other \in Containers :
             \E runs \in RunsFor(sl[other].size_, CopyRuns) :
                ctor_copy(c, other, runs, TRUE)
       \/ \E c \in Containers, other \in Containers :
             \E runs \in RunsFor(sl[other].size_, CopyRuns) :
                assign(c, other, runs, TRUE)

SpecBuild == Init /\ [][NextBuild]_vars

\* The sources of a range construction, sorted or not: the sequences of at
\* most MaxLen values that hold no value more often than the allocator has
\* slots for it.
AnySources(V) ==
    {q \in UNION {[1..n -> V] : n \in 0..MaxLen} :
        \A v \in V : Cardinality({i \in DOMAIN q : q[i] = v}) <= Dups}

\* One container built from any source, every call observed, and what
\* releases its elements afterwards.  The values are those of the
\* two-container specification, and a coin run fails at once or never.
NextRange ==
    \/ \E src \in AnySources(CopyValues) : \E runs \in RunsFor(Len(src), CopyRuns) :
          ctor_range(1, src, runs, TRUE)
    \/ \E v \in CopyValues : erase(1, v, TRUE)
    \/ clear(1, TRUE)
    \/ dtor(1, TRUE)

SpecRange == Init /\ [][NextRange]_vars

\* One container that is never cleared, every call observed: construction,
\* insert, erase and destruction.
NextNoClear ==
    \/ ctor(1, TRUE)
    \/ \E src \in SortedSources(Values) : \E runs \in RunsFor(Len(src), Runs) :
          ctor_range(1, src, runs, TRUE)
    \/ \E v \in Values, k \in Runs : insert(1, v, k, TRUE)
    \/ \E v \in Values : erase(1, v, TRUE)
    \/ dtor(1, TRUE)

SpecNoClear == Init /\ [][NextNoClear]_vars

\* One container whose first element the caller writes through begin(), no
\* call observed.  An insert waits for the container to hold fewer than
\* MaxLen elements.
NextWrite ==
    \/ ctor(1, FALSE)
    \/ \E src \in SortedSources(Values) : \E runs \in RunsFor(Len(src), 0..MaxRun) :
          ctor_range(1, src, runs, FALSE)
    \/ \E v \in Values, k \in 0..MaxRun :
          sl[1].size_ < MaxLen /\ insert(1, v, k, FALSE)
    \/ \E v \in 0..MaxVal : erase(1, v, FALSE)
    \/ clear(1, FALSE)
    \/ dtor(1, FALSE)
    \/ \E x \in WriteValues : write(1, 1, x, FALSE)

SpecWrite == Init /\ [][NextWrite]_vars

\* Two containers, no call observed: every call of NextCopy, and the write
\* of the least value through begin(), which leaves the walk in order.
NextShared ==
    \/ NextCopy
    \/ \E c \in Containers : write(c, 1, 1, FALSE)

SpecShared == Init /\ [][NextShared]_vars

\* Two runs of one sequence of calls: container 1 takes a call, then
\* container 2 takes the same call with the same argument and a coin run of
\* its own; every call is observed.  A coin run fails at once or never.
NextTwin ==
    \/ last.c # 1 /\ ctor(1, TRUE)
    \/ last.c # 1 /\ \E v \in Values, k \in CopyRuns : insert(1, v, k, TRUE)
    \/ last.c # 1 /\ \E v \in Values : erase(1, v, TRUE)
    \/ last.c # 1 /\ clear(1, TRUE)
    \/ last.c = 1 /\ last.op = "ctor" /\ ctor(2, TRUE)
    \/ last.c = 1 /\ last.op = "insert" /\ \E k \in CopyRuns : insert(2, last.v, k, TRUE)
    \/ last.c = 1 /\ last.op = "erase" /\ erase(2, last.v, TRUE)
    \/ last.c = 1 /\ last.op = "clear" /\ clear(2, TRUE)

SpecTwin == Init /\ [][NextTwin]_vars

\* One container, every call observed, and an iterator the caller keeps
\* across calls: erase through an iterator made on the spot, and erase
\* through the kept one after a call has deleted its node.  A coin run
\* fails at once or never, and nothing follows a fault.
NextIter ==
    /\ last.op # "fault"
    /\ \/ ctor(1, TRUE)
       \/ \E src \in SortedSources(Values) : \E runs \in RunsFor(Len(src), CopyRuns) :
             ctor_range(1, src, runs, TRUE)
       \/ \E v \in Values, k \in CopyRuns : insert(1, v, k, TRUE)
       \/ \E v \in Values : erase(1, v, TRUE)
       \/ clear(1, TRUE)
       \/ dtor(1, TRUE)
       \/ \E i \in 1..MaxVal : take(1, i, TRUE)
       \/ \E i \in 1..MaxVal : erase_iter(1, i, TRUE)
       \/ \E w \in StaleReads : erase_stale(1, w, TRUE)
       \/ erase_stale_fault(1, TRUE)

SpecIter == Init /\ [][NextIter]_vars

----------------------------------------------------------------------------
\* Observations the properties are stated with.  None of them is code: each
\* reads the state by following pointers.

\* The nodes met from node n on, following down.
RECURSIVE DownSeq(_, _)
DownSeq(hp, n) ==
    IF n = NULL THEN <<>> ELSE <<n>> \o DownSeq(hp, hp[n].down)

\* The constructed containers.
Living == {c \in Containers : Alive(c)}

\* The head chain of container c, topmost sentinel first.
HeadChain(c) == DownSeq(heap, sl[c].head_)
\* The element nodes and the element values of the layer of sentinel h.
LayerNodes(h) == NodeSeq(heap, heap[h].next)
LayerValues(h) == IterSeq(heap, store, heap[h].next)
\* What walking an iterator from begin() to end() yields, and the nodes met.
Walk(c) == IterSeq(heap, store, begin(heap, sl[c]))
WalkNodes(c) == NodeSeq(heap, begin(heap, sl[c]))

StrictlyIncreasing(q) == \A i \in 1..(Len(q) - 1) : q[i] < q[i + 1]

\* q is p with some of its members left out.
RECURSIVE IsSubseq(_, _)
IsSubseq(q, p) ==
    IF q = <<>> THEN TRUE
    ELSE IF p = <<>> THEN FALSE
    ELSE IF Head(q) = Head(p) THEN IsSubseq(Tail(q), Tail(p))
    ELSE IsSubseq(q, Tail(p))

\* The number of down references below node n: the layer n lies in.
LayerOf(n) == Len(DownSeq(heap, n)) - 1

\* The container whose allocations the address a belongs to, and the live
\* nodes of a container.
OwnerOf(a) == ((a - 1) \div (LevelSlots * Dups * (MaxVal + 1))) + 1
LiveNodes(c) == {a \in NodeAddrs : heap[a] # Free /\ OwnerOf(a) = c}

\* The nodes of the tower of the T object at address t.
Tower(t) == {a \in NodeAddrs : heap[a] # Free /\ heap[a].value = t}

\* The base layer of an object in a heap: its nodes and its values.
BaseNodes(hp, obj) == NodeSeq(hp, begin(hp, obj))
BaseValues(hp, st, obj) == IterSeq(hp, st, begin(hp, obj))

InSeq(x, q) == \E i \in 1..Len(q) : q[i] = x

\* q with every occurrence of x left out.
RECURSIVE Without(_, _)
Without(q, x) ==
    IF q = <<>> THEN <<>>
    ELSE IF Head(q) = x THEN Without(Tail(q), x)
    ELSE <<Head(q)>> \o Without(Tail(q), x)

\* The first node of a base layer whose value is greater than v, or end.
RECURSIVE FirstGreater(_, _, _, _)
FirstGreater(hp, st, n, v) ==
    IF n = NULL THEN end
    ELSE IF Deref(hp, st, n) > v THEN n
    ELSE FirstGreater(hp, st, hp[n].next, v)

\* The first node of a base layer whose value is not less than v, or end.
RECURSIVE FirstNotLess(_, _, _, _)
FirstNotLess(hp, st, n, v) ==
    IF n = NULL THEN end
    ELSE IF ~(Deref(hp, st, n) < v) THEN n
    ELSE FirstNotLess(hp, st, hp[n].next, v)

\* The orders in which the members of a set can be taken, each once.
Orders(S) ==
    {q \in [1..Cardinality(S) -> S] : \A i, j \in DOMAIN q : q[i] = q[j] => i = j}

\* An object lives at an address that holds neither mark of release.
IsLive(x) == x # Free /\ x # DoubleFree

\* The nodes a node refers to, and the nodes that can be reached from a set
\* of nodes through next and down.
Succ(hp, n) == IF IsLive(hp[n]) THEN {hp[n].next, hp[n].down} \ {NULL} ELSE {}
RECURSIVE Grow(_, _, _)
Grow(hp, seen, frontier) ==
    IF frontier = {} THEN seen
    ELSE LET N == UNION {Succ(hp, n) : n \in frontier} \ seen
         IN  Grow(hp, seen \cup N, N)
Closure(hp, S) == Grow(hp, S, S)

\* The nodes reachable from the head of container c, and the T objects
\* they refer to.
Reach(c) == Closure(heap, {sl[c].head_})
ReachCells(c) == {heap[n].value : n \in {m \in Reach(c) : IsLive(heap[m])}} \ {NULLV}

\* The values a caller may ask about: the element values, one below the
\* least and one above the greatest.
QueryValues == 0..(MaxVal + 1)

----------------------------------------------------------------------------
\* C1: whatever the coin flips were, walking the iterator from begin() to
\* end() yields the strictly increasing, duplicate-free sequence of the
\* values an abstract set driven by the same calls holds.
C1_WalkIsSortedSet ==
    \A c \in Living :
        /\ Walk(c) = SortedSeq(abs[c])
        /\ StrictlyIncreasing(Walk(c))

\* An erase of a present value has left two of three values under a head
\* chain of Max_Level sentinels.
C1_Witness ==
    /\ last.op = "erase" /\ last.hit
    /\ Walk(1) = <<1, 3>>
    /\ sl[1].count_lvls = Max_Level

\* C2: in every state reached with sorted sources, the values of every
\* layer above the base are a subsequence of the values of the layer below.
C2_LayersNest ==
    \A c \in Living :
        \A i \in 1..(Len(HeadChain(c)) - 1) :
            IsSubseq(LayerValues(HeadChain(c)[i]), LayerValues(HeadChain(c)[i + 1]))

\* A layer that holds some but not all of the two elements of the layer
\* below it.
C2_Witness ==
    \E c \in Living :
        \E i \in 1..(Len(HeadChain(c)) - 1) :
            /\ Len(LayerValues(HeadChain(c)[i])) >= 1
            /\ Len(LayerValues(HeadChain(c)[i + 1])) = 2
            /\ LayerValues(HeadChain(c)[i]) # LayerValues(HeadChain(c)[i + 1])

\* C3: size() is the number of element nodes of the base layer, which is
\* the number of iterator advances from begin() to end(), and empty() is
\* true exactly when that number is 0.
C3_SizeCountsBase ==
    \A c \in Living :
        /\ size(sl[c]) = Len(WalkNodes(c))
        /\ empty(sl[c]) <=> (Len(WalkNodes(c)) = 0)

\* Writes through begin() and an insert of 1 after them have left a size of
\* 3 above the three base nodes of a walk that is out of order and holds 1
\* twice, the second 1 in the T object allocated for the first element.
C3_Witness ==
    /\ Alive(1)
    /\ Walk(1) = <<1, MaxVal, 1>>
    /\ heap[WalkNodes(1)[2]].value = CellSlot(1, 1, 0)
    /\ size(sl[1]) = 3 /\ Len(WalkNodes(1)) = 3

\* C4: the head chain has exactly count_lvls nodes, all of them sentinels,
\* count_lvls is at least 1, the chain ends at the sentinel of the base
\* layer (the layer begin() walks, whose nodes have no down reference), and
\* head_ lies in the highest layer that holds any node of the container,
\* sentinel or tower node.
C4_HeadChain ==
    \A c \in Living :
        /\ Len(HeadChain(c)) = sl[c].count_lvls
        /\ sl[c].count_lvls >= 1
        /\ \A i \in 1..Len(HeadChain(c)) : heap[HeadChain(c)[i]].value = NULLV
        /\ LayerOf(HeadChain(c)[Len(HeadChain(c))]) = 0
        /\ \A i \in 1..Len(WalkNodes(c)) : heap[WalkNodes(c)[i]].down = NULL
        /\ LayerOf(sl[c].head_) = sl[c].count_lvls - 1
        /\ \A a \in LiveNodes(c) : LayerOf(a) <= LayerOf(sl[c].head_)

\* One container whose chain has Max_Level sentinels, the top layer holding
\* one of its two elements, next to a container whose chain is the base
\* sentinel alone above one element.
C4_Witness ==
    \E c \in Living, d \in Living :
        /\ Len(HeadChain(c)) = Max_Level
        /\ Len(LayerValues(sl[c].head_)) = 1
        /\ Len(WalkNodes(c)) = 2
        /\ Len(HeadChain(d)) = 1
        /\ Len(WalkNodes(d)) = 1

\* C5: the layer count never exceeds Max_Level and no tower spans more than
\* Max_Level layers, even when every coin flip succeeds.
C5_Ceiling ==
    \A c \in Living :
        /\ sl[c].count_lvls <= Max_Level
        /\ Len(HeadChain(c)) <= Max_Level
        /\ \A i \in 1..Len(WalkNodes(c)) :
              Cardinality(Tower(heap[WalkNodes(c)[i]].value)) <= Max_Level

\* Both containers stand at the ceiling: one tower of each spans Max_Level
\* layers.
C5_Witness ==
    \A c \in Containers :
        /\ Alive(c)
        /\ sl[c].count_lvls = Max_Level
        /\ \E i \in 1..Len(WalkNodes(c)) :
              Cardinality(Tower(heap[WalkNodes(c)[i]].value)) = Max_Level

\* C6: an insert of a value that is present changes nothing: no node, no
\* link, no T object, neither the size nor the layer count, whatever the
\* coin run would have been; and it returns the base-layer node of the
\* value, which is what find returns for it.
C6_InsertPresentNoOp ==
    [][ (last'.op = "insert" /\ last'.hit) =>
          /\ heap' = heap /\ store' = store /\ sl' = sl
          /\ last'.ret # end
          /\ last'.ret = find(heap', store', sl'[last'.c], last'.v)
          /\ InSeq(last'.ret, BaseNodes(heap', sl'[last'.c]))
          /\ Deref(heap', store', last'.ret) = last'.v ]_vars

\* An insert of a present value whose tower reaches the top layer, so that
\* the descent meets the tower at the top and comes down along it.
C6_Witness ==
    /\ last.op = "insert" /\ last.hit
    /\ sl[last.c].count_lvls >= 2
    /\ Cardinality(Tower(heap[last.ret].value)) = sl[last.c].count_lvls
    /\ Len(Walk(last.c)) = 3
    /\ last.ret = WalkNodes(last.c)[2]

\* C7: an insert of an absent value v adds one to the size, keeps every
\* element that was present and adds v alone, and returns the base-layer
\* node of v, which dereferences to v and is what find(v) then returns.
C7_InsertAbsent ==
    [][ (last'.op = "insert" /\ ~last'.hit) =>
          /\ size(sl'[last'.c]) = size(sl[last'.c]) + 1
          /\ \A w \in Range(BaseValues(heap, store, sl[last'.c])) :
                find(heap', store', sl'[last'.c], w) # end
          /\ Range(BaseValues(heap', store', sl'[last'.c]))
               = Range(BaseValues(heap, store, sl[last'.c])) \cup {last'.v}
          /\ Without(BaseNodes(heap', sl'[last'.c]), last'.ret)
               = BaseNodes(heap, sl[last'.c])
          /\ last'.ret # end
          /\ Deref(heap', store', last'.ret) = last'.v
          /\ InSeq(last'.ret, BaseNodes(heap', sl'[last'.c]))
          /\ find(heap', store', sl'[last'.c], last'.v) = last'.ret ]_vars

\* An insert of an absent value between two present ones, with a tower that
\* opened new layers.
C7_Witness ==
    /\ last.op = "insert" /\ ~last.hit
    /\ Walk(last.c) = <<1, 2, 3>>
    /\ last.v = 2
    /\ Cardinality(Tower(heap[last.ret].value)) = Max_Level
    /\ Len(LayerValues(sl[last.c].head_)) = 1

\* C8: an erase of a present value v takes one from the size, leaves the
\* other elements, the same nodes in the same order, makes find(v) answer
\* end(), and returns the node that stands where v's base node stood, the
\* least remaining element greater than v, or end() when v was the greatest.
C8_ErasePresent ==
    [][ (last'.op = "erase" /\ last'.hit) =>
          /\ size(sl'[last'.c]) = size(sl[last'.c]) - 1
          /\ find(heap', store', sl'[last'.c], last'.v) = end
          /\ BaseValues(heap', store', sl'[last'.c])
               = Without(BaseValues(heap, store, sl[last'.c]), last'.v)
          /\ Len(BaseValues(heap', store', sl'[last'.c]))
               = Len(BaseValues(heap, store, sl[last'.c])) - 1
          /\ BaseNodes(heap', sl'[last'.c])
               = Without(BaseNodes(heap, sl[last'.c]),
                         find(heap, store, sl[last'.c], last'.v))
          /\ \A i \in 1..Len(BaseNodes(heap, sl[last'.c])) :
                BaseNodes(heap, sl[last'.c])[i] = find(heap, store, sl[last'.c], last'.v)
                  => last'.ret = IF i <= Len(BaseNodes(heap', sl'[last'.c]))
                                 THEN BaseNodes(heap', sl'[last'.c])[i]
                                 ELSE end
          /\ last'.ret = FirstGreater(heap', store', begin(heap', sl'[last'.c]),
                                      last'.v) ]_vars

\* An erase of the middle one of three values has returned the node of the
\* third and left a head chain of the base sentinel alone.
C8_Witness ==
    /\ last.op = "erase" /\ last.hit
    /\ last.v = 2
    /\ Walk(last.c) = <<1, 3>>
    /\ last.ret = WalkNodes(last.c)[2]
    /\ sl[last.c].count_lvls = 1

\* C9: an erase of an absent value changes nothing, no node, no link, no T
\* object, neither the size nor the layer count nor head_, and returns the
\* first element greater than the value, or end() when there is none.
C9_EraseAbsentNoOp ==
    [][ (last'.op = "erase" /\ ~last'.hit) =>
          /\ heap' = heap /\ store' = store /\ sl' = sl
          /\ last'.ret = FirstGreater(heap', store', begin(heap', sl'[last'.c]),
                                      last'.v) ]_vars

\* An erase of an absent value between two present ones, under upper layers,
\* has returned the node of the greater one.
C9_Witness ==
    /\ last.op = "erase" /\ ~last.hit
    /\ last.v = 2
    /\ Walk(last.c) = <<1, 3>>
    /\ last.ret = WalkNodes(last.c)[2]
    /\ sl[last.c].count_lvls >= 2

\* C10: find(v) is end() exactly when v is not in the container; when v is
\* in it, find(v) is v's base-layer node and dereferences to v; count(v) is
\* 1 when v is in the container and 0 when it is not.
C10_FindAndCount ==
    \A c \in Living : \A v \in QueryValues :
        /\ (find(heap, store, sl[c], v) = end) <=> (v \notin abs[c])
        /\ v \in abs[c] =>
              /\ InSeq(find(heap, store, sl[c], v), WalkNodes(c))
              /\ Deref(heap, store, find(heap, store, sl[c], v)) = v
        /\ count(heap, store, sl[c], v) = (IF v \in abs[c] THEN 1 ELSE 0)
        /\ count(heap, store, sl[c], v) = 1 <=> find(heap, store, sl[c], v) # end

\* After an erase, under upper layers: the erased value is not found and
\* the two that remain are.
C10_Witness ==
    /\ last.op = "erase" /\ last.hit
    /\ find(heap, store, sl[1], last.v) = end
    /\ count(heap, store, sl[1], last.v) = 0
    /\ Len(Walk(1)) = 2
    /\ \A i \in 1..2 : find(heap, store, sl[1], Walk(1)[i]) = WalkNodes(1)[i]
    /\ sl[1].count_lvls >= 2

\* C11: in every container, empty or not, under every layering, and for
\* every query value, lower_bound(v) is the first base-layer node whose
\* value is not less than v, or end() when there is none.
C11_LowerBound ==
    \A c \in Living : \A v \in QueryValues :
        lower_bound(heap, store, sl[c], v)
          = FirstNotLess(heap, store, begin(heap, sl[c]), v)

\* Under upper layers, with 1 and 3 in the container: the lower bound of the
\* absent 2 and of the present 3 is the node of 3, that of 0 is begin() and
\* that of 4 is end().
C11_Witness ==
    /\ Alive(1) /\ Walk(1) = <<1, 3>> /\ sl[1].count_lvls >= 2
    /\ lower_bound(heap, store, sl[1], 2) = WalkNodes(1)[2]
    /\ lower_bound(heap, store, sl[1], 3) = WalkNodes(1)[2]
    /\ lower_bound(heap, store, sl[1], 0) = begin(heap, sl[1])
    /\ lower_bound(heap, store, sl[1], 4) = end

\* C12: in every container, under every layering, and for every query
\* value, upper_bound(v) is the first base-layer node whose value is greater
\* than v, or end() when there is none.
C12_UpperBound ==
    \A c \in Living : \A v \in QueryValues :
        upper_bound(heap, store, sl[c], v)
          = FirstGreater(heap, store, begin(heap, sl[c]), v)

\* Under upper layers, with 1 and 3 in the container: the upper bound of 1
\* and of the absent 2 is the node of 3, that of 3 is end() and that of 0 is
\* begin().
C12_Witness ==
    /\ Alive(1) /\ Walk(1) = <<1, 3>> /\ sl[1].count_lvls >= 2
    /\ upper_bound(heap, store, sl[1], 1) = WalkNodes(1)[2]
    /\ upper_bound(heap, store, sl[1], 2) = WalkNodes(1)[2]
    /\ upper_bound(heap, store, sl[1], 3) = end
    /\ upper_bound(heap, store, sl[1], 0) = begin(heap, sl[1])

\* C13: for every value v in the container, lower_bound(v) is the node
\* find(v) answers, and upper_bound(v) is the node one advance behind it,
\* or end() when v is the greatest.
C13_BoundsAroundFind ==
    \A c \in Living : \A v \in abs[c] :
        /\ find(heap, store, sl[c], v) # end
        /\ lower_bound(heap, store, sl[c], v) = find(heap, store, sl[c], v)
        /\ upper_bound(heap, store, sl[c], v)
             = heap[find(heap, store, sl[c], v)].next

\* Three values, the middle one with the tallest tower: its bounds are its
\* own node and the node of the third, and the upper bound of the third is
\* end().
C13_Witness ==
    /\ Alive(1) /\ Walk(1) = <<1, 2, 3>>
    /\ Cardinality(Tower(heap[WalkNodes(1)[2]].value)) = sl[1].count_lvls
    /\ sl[1].count_lvls >= 2
    /\ lower_bound(heap, store, sl[1], 2) = WalkNodes(1)[2]
    /\ upper_bound(heap, store, sl[1], 2) = WalkNodes(1)[3]
    /\ upper_bound(heap, store, sl[1], 3) = end

\* C14: from every container, erasing every value it holds, in whatever
\* order, leaves it empty: empty() is true, size() is 0 and begin() is
\* end().
C14_EraseAllEmpties ==
    \A c \in Living : \A order \in Orders(Range(Walk(c))) :
        LET r == EraseAll(heap, store, sl[c], order)
        IN  /\ empty(r.obj)
            /\ size(r.obj) = 0
            /\ begin(r.hp, r.obj) = end

\* Three values under Max_Level layers, erased middle first: the container
\* ends empty.
C14_Witness ==
    /\ Alive(1) /\ Walk(1) = <<1, 2, 3>> /\ sl[1].count_lvls = Max_Level
    /\ LET r == EraseAll(heap, store, sl[1], <<2, 3, 1>>)
       IN  empty(r.obj) /\ begin(r.hp, r.obj) = end

\* C23: in every state, every element node of a layer above the base
\* refers down to a node of the layer immediately below that refers to the
\* same T object; every base node has no down reference; every element node
\* refers to a living T object; no layer holds two nodes of one T object,
\* so the nodes of a T object are one per layer from the base up; and no T
\* object belongs to the base layers of two containers.
C23_TowersAliasOneValue ==
    /\ \A c \in Living :
          LET chain == HeadChain(c)
              L == Len(chain)
              lay == [i \in 1..L |-> LayerNodes(chain[i])]
          IN  \A i \in 1..L : \A j \in 1..Len(lay[i]) :
                 LET n == lay[i][j]
                 IN  /\ heap[n].value # NULLV
                     /\ IsLive(store[heap[n].value])
                     /\ IF i = L
                        THEN heap[n].down = NULL
                        ELSE /\ InSeq(heap[n].down, lay[i + 1])
                             /\ heap[heap[n].down].value = heap[n].value
                     /\ \A k \in 1..Len(lay[i]) :
                           heap[lay[i][k]].value = heap[n].value => k = j
    /\ \A c \in Living : \A d \in Living \ {c} :
          {heap[n].value : n \in Range(WalkNodes(c))}
             \cap {heap[n].value : n \in Range(WalkNodes(d))} = {}

\* The T object allocated for a 1 holds MaxVal after a write through
\* begin(): its tower stands two layers high, the walk reads MaxVal, 2,
\* MaxVal, and the top layer reads MaxVal through the same T object.
C23_Witness ==
    /\ Alive(1)
    /\ Walk(1) = <<MaxVal, 2, MaxVal>>
    /\ heap[WalkNodes(1)[1]].value = CellSlot(1, 1, 0)
    /\ Cardinality(Tower(heap[WalkNodes(1)[1]].value)) = 2
    /\ sl[1].count_lvls = 2
    /\ LayerValues(sl[1].head_) = <<MaxVal>>

\* The six invariants of the data model: sorted duplicate-free base layer,
\* nested layers, size, head chain, ceiling, and towers whose nodes refer
\* down layer by layer and share one T object.
DataModel ==
    /\ C1_WalkIsSortedSet
    /\ C2_LayersNest
    /\ C3_SizeCountsBase
    /\ C4_HeadChain
    /\ C5_Ceiling
    /\ C23_TowersAliasOneValue

\* C17: clear() leaves the container empty, empty() true, size() 0, begin()
\* equal to end() and find of every value end(); and the data model holds
\* after it and after every call that follows.
C17_ClearEmpties ==
    /\ (last.op = "clear") =>
          /\ empty(sl[last.c])
          /\ size(sl[last.c]) = 0
          /\ begin(heap, sl[last.c]) = end
          /\ \A v \in QueryValues : find(heap, store, sl[last.c], v) = end
    /\ DataModel

\* A clear has emptied a container of Max_Level layers, whose sentinels
\* stay.
C17_Witness ==
    /\ last.op = "clear"
    /\ sl[1].count_lvls = Max_Level
    /\ Len(HeadChain(1)) = Max_Level
    /\ empty(sl[1]) /\ begin(heap, sl[1]) = end

\* C20: no address is released twice; every node reachable from a head is
\* a live node whose value storage, if it has any, is live; and every live
\* node and every live T object is reachable from the head of a container.
\* So an erased or cleared element leaves no node of its tower behind,
\* linked or not, and its value storage is gone with it.
C20_ReleasedOnce ==
    LET reached == UNION {Reach(c) : c \in Living}
        cells == UNION {ReachCells(c) : c \in Living}
    IN  /\ \A a \in NodeAddrs : heap[a] # DoubleFree
        /\ \A a \in CellAddrs : store[a] # DoubleFree
        /\ \A n \in reached :
              /\ IsLive(heap[n])
              /\ heap[n].value # NULLV => IsLive(store[heap[n].value])
        /\ {a \in NodeAddrs : IsLive(heap[a])} \subseteq reached
        /\ {a \in CellAddrs : IsLive(store[a])} \subseteq cells

\* An erase has taken the middle one of three values from under Max_Level
\* layers: the T object of the value is gone and no live node is left outside
\* the reachable ones.
C20_Witness ==
    /\ last.op = "erase" /\ last.hit /\ last.v = 2
    /\ Walk(1) = <<1, 3>>
    /\ sl[1].count_lvls = Max_Level
    /\ \A a \in CellAddrs : IsLive(store[a]) => store[a].obj # 2
    /\ Cardinality({a \in NodeAddrs : IsLive(heap[a])}) = Cardinality(Reach(1))

\* C15: a range construction from a strictly increasing source, a copy
\* construction and an assignment leave a container whose walk is the source
\* sequence (for a copy and an assignment: the walk of the other container
\* before the call) and whose size is its length, with every invariant of
\* the data model, whatever the coin gives; after an assignment no layer of
\* the old contents is left: the top layer holds an element unless there is
\* one layer only.
C15_BuildKeepsSource ==
    /\ [](last.op \in {"ctor_range", "ctor_copy", "assign"} => DataModel)
    /\ [][ (last'.op \in {"ctor_range", "ctor_copy", "assign"}) =>
          LET c == last'.c
              source == IF last'.op = "ctor_range"
                        THEN SortedSeq(abs'[c])
                        ELSE BaseValues(heap, store, sl[last'.v])
          IN  /\ BaseValues(heap', store', sl'[c]) = source
              /\ size(sl'[c]) = Len(source)
              /\ (last'.op = "assign" /\ last'.v # c) =>
                    \/ sl'[c].count_lvls = 1
                    \/ heap'[sl'[c].head_].next # NULL ]_vars

\* An assignment has copied a container of two elements on one layer: the
\* copy holds the same walk, its coin gave the first element no tower and the
\* second a tower of Max_Level nodes that share one T object.
C15_Witness ==
    /\ last.op = "assign" /\ last.c = 2 /\ last.v = 1
    /\ Walk(1) = <<1, 2>> /\ Walk(2) = <<1, 2>>
    /\ sl[1].count_lvls = 1
    /\ sl[2].count_lvls = Max_Level /\ size(sl[2]) = 2
    /\ Cardinality(Tower(heap[WalkNodes(2)[1]].value)) = 1
    /\ Cardinality(Tower(heap[WalkNodes(2)[2]].value)) = Max_Level

\* C16: two containers, however one was made from the other, share no node
\* and no value cell, and a call, or a write through an iterator, changes
\* one container only: when the contents or the members of a container
\* change in a step, the members of every other container, its nodes and
\* its value cells are what they were, and so are its size and its walk.
C16_CopiesAreIndependent ==
    /\ [](LET nodes == [c \in Containers |-> IF c \in Living THEN Reach(c) ELSE {}]
              cells == [c \in Containers |-> IF c \in Living THEN ReachCells(c) ELSE {}]
          IN  \A c \in Containers : \A d \in Containers \ {c} :
                 /\ nodes[c] \cap nodes[d] = {}
                 /\ cells[c] \cap cells[d] = {})
    /\ [][ LET Untouched(d) ==
                 /\ sl'[d] = sl[d]
                 /\ heap' # heap => \A n \in Reach(d) : heap'[n] = heap[n]
                 /\ store' # store => \A a \in ReachCells(d) : store'[a] = store[a]
               kept == {d \in Living : Untouched(d)}
           IN  /\ \A c \in Containers :
                    (abs'[c] # abs[c] \/ sl'[c] # sl[c]) => Living \ {c} \subseteq kept
               /\ \E c \in Containers : Living \ {c} \subseteq kept ]_vars

\* Two containers differ after a write through begin(): one holds 2 under
\* Max_Level layers, the other holds 1 in the T object allocated for a 2.
C16_Witness ==
    /\ Living = Containers
    /\ Walk(1) = <<2>> /\ sl[1].count_lvls = Max_Level
    /\ Walk(2) = <<1>> /\ sl[2].count_lvls = 1
    /\ heap[WalkNodes(2)[1]].value = CellSlot(2, 2, 0)
    /\ Reach(1) \cap Reach(2) = {}
    /\ ReachCells(1) \cap ReachCells(2) = {}

\* C18: erase(it), for an iterator that references an element of the
\* container, leaves the state erase(v) leaves for the value v the iterator
\* references and returns what erase(v) returns: v is gone, the size is one
\* less, the other nodes stay in order, and the node returned is the one
\* behind v, or end().
C18_EraseIterIsEraseValue ==
    [][ (last'.op = "erase_iter") =>
          LET r == EraseCall(heap, store, sl[last'.c], last'.v)
          IN  /\ heap' = r.hp
              /\ store' = r.st
              /\ sl'[last'.c] = r.obj
              /\ last'.ret = r.ret
              /\ size(sl'[last'.c]) = size(sl[last'.c]) - 1
              /\ BaseValues(heap', store', sl'[last'.c])
                   = Without(BaseValues(heap, store, sl[last'.c]), last'.v)
              /\ last'.ret = FirstGreater(heap', store',
                                          begin(heap', sl'[last'.c]), last'.v) ]_vars

\* An erase through the iterator to the middle one of three values, under
\* Max_Level layers, has returned the node of the third.
C18_Witness ==
    /\ last.op = "erase_iter" /\ last.v = 2
    /\ Walk(1) = <<1, 3>>
    /\ last.ret = WalkNodes(1)[2]
    /\ sl[1].count_lvls = Max_Level

\* C19: erase(it), for an iterator to an element that has been erased since
\* the iterator was obtained, returns, leaves the container as it was and
\* answers end().
C19_StaleEraseNoOp ==
    [][ (last'.op \in {"erase_stale", "fault"}) =>
          /\ last'.op = "erase_stale"
          /\ heap' = heap /\ store' = store /\ sl' = sl
          /\ last'.ret = end ]_vars

\* C21: a range construction from a source that is not strictly increasing
\* completes like any other: the walk of the new container is the source,
\* element by element in source order, and its size is the length of the
\* source; so the base layer is not a strictly increasing sequence, and the
\* state fails the invariants of the data model.
C21_UncheckedRange ==
    /\ [](LET src == SourceOf(last.v)
          IN  (last.op = "ctor_range" /\ ~StrictlyIncreasing(src)) =>
                 /\ Walk(last.c) = src
                 /\ size(sl[last.c]) = Len(src)
                 /\ ~StrictlyIncreasing(LayerValues(Bottom(heap, sl[last.c].head_)))
                 /\ ~DataModel)
    /\ [][ (last'.op = "ctor_range") =>
             /\ BaseValues(heap', store', sl'[last'.c]) = SourceOf(last'.v)
             /\ size(sl'[last'.c]) = Len(SourceOf(last'.v)) ]_vars

\* A construction from <<2, 1, 2>> has left these three values in this
\* order under Max_Level layers; find misses the 1 the walk holds.
C21_Witness ==
    /\ last.op = "ctor_range" /\ SourceOf(last.v) = <<2, 1, 2>>
    /\ Walk(1) = <<2, 1, 2>>
    /\ size(sl[1]) = 3
    /\ sl[1].count_lvls = Max_Level
    /\ find(heap, store, sl[1], 1) = end

\* C22: after an erase that has removed an element, the top sentinel has a
\* successor or one layer is left; the head chain after the call is the
\* lower end of the head chain before it, so the base sentinel stays; the
\* layer count has gone down by the number of sentinels discarded, and
\* these have been released.
C22_EraseShrinksFromTop ==
    [][ (last'.op = "erase" /\ last'.hit) =>
          LET c == last'.c
              old == DownSeq(heap, sl[c].head_)
              new == DownSeq(heap', sl'[c].head_)
              gone == Len(old) - Len(new)
          IN  /\ heap'[sl'[c].head_].next # NULL \/ sl'[c].count_lvls = 1
              /\ gone >= 0 /\ Len(new) >= 1
              /\ new = SubSeq(old, gone + 1, Len(old))
              /\ Bottom(heap', sl'[c].head_) = Bottom(heap, sl[c].head_)
              /\ sl'[c].count_lvls = sl[c].count_lvls - gone
              /\ \A i \in 1..gone : ~IsLive(heap'[old[i]]) ]_vars

\* An erase has removed 1 and left 2 alone on the base layer under one
\* sentinel: whatever layers the tower of 1 stood on are gone.
C22_Witness ==
    /\ last.op = "erase" /\ last.hit /\ last.v = 1
    /\ Walk(1) = <<2>>
    /\ sl[1].count_lvls = 1
    /\ Cardinality({a \in NodeAddrs : IsLive(heap[a])}) = 2

\* What a caller sees of a returned iterator: the value it dereferences
\* to, or 0 for end().
Seen(hp, st, it) == IF it = end THEN 0 ELSE Deref(hp, st, it)

\* C24: when container 2 has taken the call container 1 took before it, with
\* coin flips of its own, the two calls have answered alike (the same value
\* behind the returned iterator, or end() both), and the two containers
\* answer alike: size(), empty(), the walk from begin() to end(), and for
\* every value asked find, lower_bound, upper_bound and count.
C24_CoinsUnseen ==
    [][ (last.c = 1 /\ last'.c = 2) =>
          /\ last'.op = last.op /\ last'.v = last.v
          /\ last'.hit = last.hit
          /\ Seen(heap', store', last'.ret) = Seen(heap', store', last.ret)
          /\ size(sl'[1]) = size(sl'[2])
          /\ empty(sl'[1]) = empty(sl'[2])
          /\ BaseValues(heap', store', sl'[1]) = BaseValues(heap', store', sl'[2])
          /\ \A q \in QueryValues :
                /\ Seen(heap', store', find(heap', store', sl'[1], q))
                     = Seen(heap', store', find(heap', store', sl'[2], q))
                /\ Seen(heap', store', lower_bound(heap', store', sl'[1], q))
                     = Seen(heap', store', lower_bound(heap', store', sl'[2], q))
                /\ Seen(heap', store', upper_bound(heap', store', sl'[1], q))
                     = Seen(heap', store', upper_bound(heap', store', sl'[2], q))
                /\ count(heap', store', sl'[1], q) = count(heap', store', sl'[2], q) ]_vars

\* The same calls have left the same two elements in both containers, one
\* under Max_Level layers and one on the base layer alone.
C24_Witness ==
    /\ last.c = 2
    /\ Alive(1) /\ Alive(2)
    /\ Walk(1) = <<1, 3>> /\ Walk(2) = <<1, 3>>
    /\ sl[1].count_lvls = Max_Level
    /\ sl[2].count_lvls = 1

\* C25: in a container that has never been cleared, every layer above the
\* base holds an element: no sentinel of the head chain but the base one is
\* without a successor.
C25_NoEmptyLayer ==
    \A c \in Living :
        \A i \in 1..(Len(HeadChain(c)) - 1) : heap[HeadChain(c)[i]].next # NULL

\* An erase has removed an element and left two layers, the upper one
\* holding one of the two elements left.
C25_Witness ==
    /\ last.op = "erase" /\ last.hit
    /\ sl[1].count_lvls = 2
    /\ Len(LayerValues(sl[1].head_)) = 1
    /\ Len(Walk(1)) = 2

\* C26: clear() leaves head_, the layer count and the head chain as they
\* were, every sentinel without a successor, and no node alive but the
\* sentinels; neither clear, nor insert, nor an erase that finds nothing to
\* remove discards a sentinel: the head chain before such a call is the
\* lower end of the head chain after it, and the erase changes nothing; an
\* erase that removes an element leaves no empty layer on top.
C26_ClearKeepsLayers ==
    [][ LET c == last'.c
            old == DownSeq(heap, sl[c].head_)
            new == DownSeq(heap', sl'[c].head_)
        IN  /\ (last'.op = "clear") =>
                  /\ sl'[c].head_ = sl[c].head_
                  /\ sl'[c].count_lvls = sl[c].count_lvls
                  /\ new = old
                  /\ \A i \in 1..Len(new) :
                        /\ heap'[new[i]].next = NULL
                        /\ heap'[new[i]].value = NULLV
                        /\ heap'[new[i]].down = heap[old[i]].down
                  /\ {a \in NodeAddrs : IsLive(heap'[a])} = Range(new)
            /\ (last'.op \in {"clear", "insert"} \/ (last'.op = "erase" /\ ~last'.hit)) =>
                  /\ Len(new) >= Len(old)
                  /\ old = SubSeq(new, Len(new) - Len(old) + 1, Len(new))
            /\ (last'.op = "erase" /\ ~last'.hit) =>
                  /\ heap' = heap /\ store' = store /\ sl' = sl
            /\ (last'.op = "erase" /\ last'.hit) =>
                  \/ heap'[sl'[c].head_].next # NULL
                  \/ sl'[c].count_lvls = 1 ]_vars

\* An erase that found nothing to remove has left the Max_Level sentinels
\* of a cleared container, none with a successor, above no element.
C26_Witness ==
    /\ last.op = "erase" /\ ~last.hit
    /\ sl[1].count_lvls = Max_Level
    /\ Len(HeadChain(1)) = Max_Level
    /\ \A i \in 1..Max_Level : heap[HeadChain(1)[i]].next = NULL
    /\ size(sl[1]) = 0

====
